---- MODULE Spec2Model ----
(***************************************************************************)
(* A model of class economic_analysis (src/economic_analysis.py).          *)
(*                                                                         *)
(* Every method is a call made from the idle state: the call's arguments   *)
(* are drawn from small sets, the method runs, and its outcome (a returned *)
(* value or a raised exception) is left in ret.  depreciation runs its     *)
(* while-loop one program point at a time.                                 *)
(*                                                                         *)
(* Numbers.  Python floats are modelled as exact rationals <<n, d>> with   *)
(* d > 0 and gcd(n, d) = 1, so the results agree with the program's up to  *)
(* floating-point rounding.  Where the program truncates a float to an     *)
(* integer (the cost correlations) the rounding is observable, and the     *)
(* model uses the values IEEE double arithmetic produces, tabulated for    *)
(* the sampled sizes.                                                      *)
(***************************************************************************)
EXTENDS Integers, Sequences, FiniteSets, TLC

VARIABLES pc, call, ret, out, prev, annual_depreciation, df

vars == <<pc, call, ret, out, prev, annual_depreciation, df>>

---------------------------------------------------------------------------
(* Bounds of the model.                                                    *)

\* depreciation rates are the multiples k/RateDen, k in -1 .. RateDen+1
RateDen == 4
\* loan terms are 1 .. MaxYears
MaxYears == 3
\* cash-flow sequences given to payback have at most MaxLen entries
MaxLen == 4
\* the ledger's horizon (the program's years = 20), shortened
Horizon == 4

---------------------------------------------------------------------------
(* Exact rational arithmetic standing for Python's float arithmetic.       *)

Abs(x) == IF x < 0 THEN -x ELSE x

RECURSIVE GCD(_, _)
GCD(a, b) == IF b = 0 THEN a ELSE GCD(b, a % b)

Rat(n, d) ==
    LET s == IF d < 0 THEN -1 ELSE 1
        g == GCD(Abs(n), Abs(d))
    IN  <<(s * n) \div g, (s * d) \div g>>

R(n) == <<n, 1>>

RNeg(a) == <<-a[1], a[2]>>

RAdd(a, b) ==
    LET g == GCD(a[2], b[2])
        l == (a[2] \div g) * b[2]
    IN  Rat(a[1] * (l \div a[2]) + b[1] * (l \div b[2]), l)

RSub(a, b) == RAdd(a, RNeg(b))

RMul(a, b) ==
    LET g1 == GCD(Abs(a[1]), b[2])
        g2 == GCD(Abs(b[1]), a[2])
    IN  Rat((a[1] \div g1) * (b[1] \div g2), (a[2] \div g2) * (b[2] \div g1))

RDiv(a, b) == RMul(a, Rat(b[2], b[1]))

RECURSIVE RPow(_, _)
RPow(a, n) == IF n = 0 THEN R(1) ELSE RMul(a, RPow(a, n - 1))

RLt(a, b) == RSub(a, b)[1] < 0

RLe(a, b) == RSub(a, b)[1] <= 0

RAbs(a) == <<Abs(a[1]), a[2]>>

\* int(x): truncation toward zero
int(a) == IF a[1] >= 0 THEN a[1] \div a[2] ELSE -((-a[1]) \div a[2])

RECURSIVE RSum(_)
RSum(s) == IF s = <<>> THEN R(0) ELSE RAdd(Head(s), RSum(Tail(s)))

---------------------------------------------------------------------------
(* The capital factor table, column "Fluids" (in tenths and hundredths).   *)

Capital_factors(row) ==
    CASE row = "fer" -> Rat(3, 10)
      [] row = "fp"  -> Rat(8, 10)
      [] row = "fi"  -> Rat(3, 10)
      [] row = "fel" -> Rat(2, 10)
      [] row = "fc"  -> Rat(3, 10)
      [] row = "fs"  -> Rat(2, 10)
      [] row = "fl"  -> Rat(1, 10)
      [] row = "OS"  -> Rat(3, 10)
      [] row = "D&E" -> Rat(35, 100)
      [] row = "X"   -> Rat(1, 10)

\* (1 + fp) * fm + (fer + fel + fi + fc + fs + fl)
InstallFactor(fm) ==
    RAdd(RMul(RAdd(R(1), Capital_factors("fp")), R(fm)),
         RAdd(RAdd(RAdd(RAdd(RAdd(Capital_factors("fer"), Capital_factors("fel")),
                             Capital_factors("fi")), Capital_factors("fc")),
                   Capital_factors("fs")), Capital_factors("fl")))

---------------------------------------------------------------------------
(* Cost correlations.  The sampled sizes and, for each, the value the      *)
(* float expression takes (IEEE double, truncated by int()).               *)

BoilerQ == {4999, 5000, 10000, 19999, 20000, 20001, 100000,
            199999, 200000, 200001, 800000, 800001}

BoilerP == {9, 10, 14, 15, 16, 39, 40, 41, 70, 71}

\* int(106000 + 8.7 * Q)
LinearCost(Q) ==
    CASE Q = 4999   -> 149491
      [] Q = 5000   -> 149500
      [] Q = 10000  -> 193000
      [] Q = 19999  -> 279991
      [] Q = 20000  -> 280000
      [] Q = 20001  -> 280008
      [] Q = 100000 -> 975999
      [] Q = 199999 -> 1845991
      [] Q = 200000 -> 1845999
      [] Q = 200001 -> 1846008
      [] Q = 800000 -> 7065999
      [] Q = 800001 -> 7066008

\* int(110000 + 4.5 * Q ** 0.9)
PowerCost(Q) ==
    CASE Q = 4999   -> 119598
      [] Q = 5000   -> 119600
      [] Q = 10000  -> 127914
      [] Q = 19999  -> 143428
      [] Q = 20000  -> 143430
      [] Q = 20001  -> 143431
      [] Q = 100000 -> 252302
      [] Q = 199999 -> 375544
      [] Q = 200000 -> 375545
      [] Q = 200001 -> 375547
      [] Q = 800000 -> 1034684
      [] Q = 800001 -> 1034685

boiler_correlation_le(valor_production, pressure) ==
    IF valor_production <= 20000 THEN LinearCost(valor_production)
    ELSE IF valor_production < 200000 THEN
        IF pressure < 15 THEN PowerCost(valor_production)
        ELSE IF pressure < 40 THEN LinearCost(valor_production)
        ELSE PowerCost(valor_production)
    ELSE PowerCost(valor_production)

boiler_correlation(valor_production, pressure) ==
    IF valor_production < 20000 THEN LinearCost(valor_production)
    ELSE IF valor_production < 200000 THEN
        IF pressure < 15 THEN PowerCost(valor_production)
        ELSE IF pressure < 40 THEN LinearCost(valor_production)
        ELSE PowerCost(valor_production)
    ELSE PowerCost(valor_production)

TurbineKW == {99, 100, 1500, 20000, 20001}

\* int(-12000 + 1630 * power ** 0.75)
turbine_correlation(power) ==
    CASE power = 99    -> 39158
      [] power = 100   -> 39545
      [] power = 1500  -> 380876
      [] power = 20000 -> 2729322
      [] power = 20001 -> 2729425

PumpQ == {Rat(1, 10), Rat(1, 5), Rat(71, 25), R(126), R(127)}

\* int(6900 + 206 * caudal ** 0.9)
pump_correlation(caudal) ==
    CASE caudal = Rat(1, 10)  -> 6925
      [] caudal = Rat(1, 5)   -> 6948
      [] caudal = Rat(71, 25) -> 7427
      [] caudal = R(126)      -> 22902
      [] caudal = R(127)      -> 23017

---------------------------------------------------------------------------
(* Python values given as the installed flag: the type and the truth value *)

InstalledValues ==
    { [type |-> "bool", truth |-> TRUE], [type |-> "bool", truth |-> FALSE],
      [type |-> "int", truth |-> TRUE], [type |-> "int", truth |-> FALSE],
      [type |-> "str", truth |-> TRUE], [type |-> "NoneType", truth |-> FALSE] }

MaterialFactors == {1, 2}

Raised(e) == [outcome |-> e]

\* what a call returned, by the kind of value
ReturnedCost(v) == [outcome |-> "returned", cost |-> v]

ReturnedSeries(v) == [outcome |-> "returned", series |-> v]

ReturnedSchedule(v) == [outcome |-> "returned", schedule |-> v]

ReturnedYears(v) == [outcome |-> "returned", years |-> v]

ReturnedNone == [outcome |-> "returned"]

NoCall == [fn |-> "none"]

NoRet == [outcome |-> "none"]

\* the installed-cost adjustment and the truncation of lines 41-47
Installed(C, fm, installed) ==
    IF installed.truth THEN int(RMul(R(C), InstallFactor(fm))) ELSE C

BoilerWarnings(Q, p) ==
    (IF Q < 5000 \/ Q > 800000 THEN <<"boiler vapor production out of method bounds">> ELSE <<>>)
    \o (IF p < 10 \/ p > 70 THEN <<"boiler pressure out of method bounds">> ELSE <<>>)

\* boiler without its assertion: a non-boolean flag is used for its truth value
boiler_unchecked(Q, p, fm, installed) ==
    /\ pc = "idle"
    /\ pc' = "done"
    /\ call' = [fn |-> "boiler", Q |-> Q, p |-> p, fm |-> fm, installed |-> installed]
    /\ out' = BoilerWarnings(Q, p)
    /\ ret' = ReturnedCost(Installed(boiler_correlation(Q, p), fm, installed))
    /\ UNCHANGED <<prev, annual_depreciation, df>>

boiler(Q, p, fm, installed) ==
    /\ pc = "idle"
    /\ pc' = "done"
    /\ call' = [fn |-> "boiler", Q |-> Q, p |-> p, fm |-> fm, installed |-> installed]
    /\ IF installed.type # "bool"
       THEN /\ ret' = Raised("AssertionError")
            /\ out' = <<>>
       ELSE /\ out' = BoilerWarnings(Q, p)
            /\ ret' = ReturnedCost(Installed(boiler_correlation(Q, p), fm, installed))
    /\ UNCHANGED <<prev, annual_depreciation, df>>

pump(Q, fm, installed) ==
    /\ pc = "idle"
    /\ pc' = "done"
    /\ call' = [fn |-> "pump", Q |-> Q, fm |-> fm, installed |-> installed]
    /\ IF installed.type # "bool"
       THEN /\ ret' = Raised("AssertionError")
            /\ out' = <<>>
       ELSE /\ out' = IF RLt(Q, Rat(2, 10)) \/ RLt(R(126), Q)
                      THEN <<"pump caudal out of method bounds">> ELSE <<>>
            /\ ret' = ReturnedCost(Installed(pump_correlation(Q), fm, installed))
    /\ UNCHANGED <<prev, annual_depreciation, df>>

steam_turbine(kW, fm, installed) ==
    /\ pc = "idle"
    /\ pc' = "done"
    /\ call' = [fn |-> "steam_turbine", kW |-> kW, fm |-> fm, installed |-> installed]
    /\ IF installed.type # "bool"
       THEN /\ ret' = Raised("AssertionError")
            /\ out' = <<>>
       ELSE /\ out' = IF kW < 100 \/ kW > 20000
                      THEN <<"steam turbine power out of method bounds">> ELSE <<>>
            /\ ret' = ReturnedCost(Installed(turbine_correlation(kW), fm, installed))
    /\ UNCHANGED <<prev, annual_depreciation, df>>

---------------------------------------------------------------------------
(* numpy_financial's pmt, fv, ipmt and ppmt (fv = 0, when = 'end'), as the *)
(* library computes them, in exact arithmetic.                             *)

\* pmt = -(fv + pv * (1 + rate)**nper) / fact, fact = nper when rate = 0
\* and ((1 + rate)**nper - 1) / rate otherwise
pmt(rate, nper, pv) ==
    LET temp == RPow(RAdd(R(1), rate), nper)
        fact == IF rate = R(0) THEN R(nper)
                ELSE RDiv(RSub(temp, R(1)), rate)
    IN  RNeg(RDiv(RMul(pv, temp), fact))

\* fv = -(pv * (1 + rate)**nper + pmt * ((1 + rate)**nper - 1) / rate),
\* and -(pv + pmt * nper) when rate = 0
fv(rate, nper, payment, pv) ==
    LET temp == RPow(RAdd(R(1), rate), nper)
    IN  IF rate = R(0) THEN RNeg(RAdd(pv, RMul(payment, R(nper))))
        ELSE RNeg(RAdd(RMul(pv, temp),
                       RMul(payment, RDiv(RSub(temp, R(1)), rate))))

\* the interest of period per: the balance remaining after per - 1 periods,
\* times the rate
ipmt(rate, per, nper, pv) ==
    RMul(fv(rate, per - 1, pmt(rate, nper, pv), pv), rate)

ppmt(rate, per, nper, pv) ==
    RSub(pmt(rate, nper, pv), ipmt(rate, per, nper, pv))

LoanQuantities == {R(-6), R(0), R(6), R(12)}

InterestRates == {Rat(k, 2) : k \in -1 .. 3}

LoanYears == 1 .. MaxYears

\* loan with the principal series over np.arange(years - 1) + 1
loan_value_short(quantity, interest, years) ==
    [ payment   |-> pmt(interest, years, quantity),
      interest  |-> [k \in 1 .. years |-> ipmt(interest, k, years, quantity)],
      principal |-> [k \in 1 .. years - 1 |-> ppmt(interest, k, years, quantity)] ]

\* the value loan returns: (loan_payment, loan_interest, loan_principal),
\* the two series over the periods np.arange(years) + 1
loan_value(quantity, interest, years) ==
    [ payment   |-> pmt(interest, years, quantity),
      interest  |-> [k \in 1 .. years |-> ipmt(interest, k, years, quantity)],
      principal |-> [k \in 1 .. years |-> ppmt(interest, k, years, quantity)] ]

loan_precondition(quantity, interest, years) ==
    /\ RLt(R(0), quantity)
    /\ RLe(R(0), interest) /\ RLe(interest, R(1))
    /\ years > 1

loan(quantity, interest, years) ==
    /\ pc = "idle"
    /\ pc' = "done"
    /\ call' = [fn |-> "loan", quantity |-> quantity, interest |-> interest,
                years |-> years]
    /\ ret' = IF loan_precondition(quantity, interest, years)
              THEN ReturnedSchedule(loan_value(quantity, interest, years))
              ELSE Raised("AssertionError")
    /\ UNCHANGED <<out, prev, annual_depreciation, df>>

---------------------------------------------------------------------------
(* depreciation: the assertion, then the loop of lines 116-121 one program *)
(* point at a time, then the scaling of line 123.                          *)

DepRates == {Rat(k, RateDen) : k \in -1 .. RateDen + 1} \cup {Rat(7, 100)}

\* (capex, residual_value)
DepBases == {<<100000, 0>>, <<100, 20>>, <<20, 50>>}

\* The list is recorded up to MaxEntries entries.  Every schedule of a
\* positive rate of DepRates is shorter, so only a loop that never ends
\* reaches this length.
MaxEntries == IF RateDen + 2 > 16 THEN RateDen + 2 ELSE 16

Record(list, x) == IF Len(list) < MaxEntries THEN Append(list, x) ELSE list

\* -1 * np.array(annual_depreciation) * (capex - residual_value)
depreciation_array(list, capex, residual_value) ==
    [i \in 1 .. Len(list) |-> RMul(RMul(R(-1), list[i]), R(capex - residual_value))]

depreciation_precondition(annual_percent) ==
    RLe(R(0), annual_percent) /\ RLe(annual_percent, R(1))

depreciation(annual_percent, capex, residual_value) ==
    /\ pc = "idle"
    /\ call' = [fn |-> "depreciation", annual_percent |-> annual_percent,
                capex |-> capex, residual_value |-> residual_value]
    /\ IF depreciation_precondition(annual_percent)
       THEN /\ pc' = "dep_test"
            /\ ret' = NoRet
       ELSE /\ pc' = "done"
            /\ ret' = Raised("AssertionError")
    /\ annual_depreciation' = <<>>
    /\ prev' = R(1)
    /\ UNCHANGED <<out, df>>

\* the loop's exit charging the full rate instead of the remainder
dep_test_full_rate ==
    /\ pc = "dep_test"
    /\ IF RLt(prev, call.annual_percent)
       THEN /\ annual_depreciation' = Record(annual_depreciation, call.annual_percent)
            /\ pc' = "dep_return"
       ELSE /\ pc' = "dep_body"
            /\ UNCHANGED annual_depreciation
    /\ UNCHANGED <<call, ret, out, prev, df>>

\* if prev < annual_percent: append(prev); break
dep_test ==
    /\ pc = "dep_test"
    /\ IF RLt(prev, call.annual_percent)
       THEN /\ annual_depreciation' = Record(annual_depreciation, prev)
            /\ pc' = "dep_return"
       ELSE /\ pc' = "dep_body"
            /\ UNCHANGED annual_depreciation
    /\ UNCHANGED <<call, ret, out, prev, df>>

\* append(annual_percent); prev = prev - annual_percent
dep_body ==
    /\ pc = "dep_body"
    /\ annual_depreciation' = Record(annual_depreciation, call.annual_percent)
    /\ prev' = RSub(prev, call.annual_percent)
    /\ pc' = "dep_test"
    /\ UNCHANGED <<call, ret, out, df>>

dep_return ==
    /\ pc = "dep_return"
    /\ ret' = ReturnedSeries(depreciation_array(annual_depreciation, call.capex,
                                                call.residual_value))
    /\ pc' = "done"
    /\ UNCHANGED <<call, out, prev, annual_depreciation, df>>

---------------------------------------------------------------------------
(* payback                                                                 *)

CashValues == {-1, 0, 1}

CashFlows == UNION {[1 .. n -> CashValues] : n \in 0 .. MaxLen} \cup {<<-100, -20, 30, 40>>}

\* the for-loop of lines 166-171 from entry i on, with the count so far
RECURSIVE payback_loop(_, _, _)
payback_loop(cash_flow, i, years) ==
    IF i > Len(cash_flow) THEN years
    ELSE IF cash_flow[i] < 0 THEN payback_loop(cash_flow, i + 1, years + 1)
    ELSE years

\* the count started at 0 instead of 1
payback_from_zero(cash_flow) == payback_loop(cash_flow, 1, 0)

payback_value(cash_flow) == payback_loop(cash_flow, 1, 1)

payback(cash_flow) ==
    /\ pc = "idle"
    /\ pc' = "done"
    /\ call' = [fn |-> "payback", cash_flow |-> cash_flow]
    /\ ret' = ReturnedYears(payback_value(cash_flow))
    /\ UNCHANGED <<out, prev, annual_depreciation, df>>

---------------------------------------------------------------------------
(* execute: the ledger of lines 204-241.  The literals of lines 178-199    *)
(* (the equipment sizes, the prices, the loan's and the depreciation's     *)
(* terms) are drawn from small sets, so that years of either sign of EBT   *)
(* occur; years is Horizon.  Index i + 1 of a row is year i.  The metrics, *)
(* the printing, the plot and the export read the ledger and change        *)
(* nothing.                                                                *)

ExecCapex == {5, 10}

ExecInterest == {R(0), R(1)}

ExecLoanYears == {2}

ExecDepRates == {Rat(1, 4), Rat(1, 2), R(1)}

ExecSales == {2, 8}

ExecWater == {1}

ExecSalaries == {1, 3}

Zeros(n) == [i \in 1 .. n |-> R(0)]

\* the while-loop of depreciation run to its end (annual_percent > 0)
RECURSIVE depreciation_loop(_, _, _)
depreciation_loop(annual_percent, remaining, list) ==
    IF RLt(remaining, annual_percent) THEN Append(list, remaining)
    ELSE depreciation_loop(annual_percent, RSub(remaining, annual_percent),
                           Append(list, annual_percent))

depreciation_value(annual_percent, capex, residual_value) ==
    depreciation_array(depreciation_loop(annual_percent, R(1), <<>>),
                       capex, residual_value)

\* np.hstack(([0], series, [0 for i in range(years - 1 - len(series))]))
Padded(series) == <<R(0)>> \o series \o Zeros(Horizon - 1 - Len(series))

\* [-capex * 0.4] + [0 for i in range(years - 1)]
investment_row(capex) == <<RMul(R(-capex), Rat(4, 10))>> \o Zeros(Horizon - 1)

\* the loop of lines 213-225 for one row: 0 in year 0, first in year 1,
\* the year before times growth afterwards
RECURSIVE escalated(_, _, _)
escalated(first, growth, i) ==
    IF i = 0 THEN R(0)
    ELSE IF i = 1 THEN first
    ELSE RMul(escalated(first, growth, i - 1), growth)

escalated_row(first, growth) == [k \in 1 .. Horizon |-> escalated(first, growth, k - 1)]

\* np.vstack(rows).sum(axis=0)
RECURSIVE column_sum(_, _)
column_sum(rows, k) ==
    IF rows = <<>> THEN R(0) ELSE RAdd(Head(rows)[k], column_sum(Tail(rows), k))

ebt_row(rows) == [k \in 1 .. Horizon |-> column_sum(rows, k)]

\* taxes = ebt * -0.3 with the positive entries kept
taxes_unclipped(ebt) == [k \in DOMAIN ebt |-> RMul(ebt[k], Rat(-3, 10))]

\* taxes = ebt * -0.3 with the negative entries set to zero
taxes_clip_negative(ebt) ==
    [k \in DOMAIN ebt |->
        LET t == RMul(ebt[k], Rat(-3, 10)) IN IF t[1] < 0 THEN R(0) ELSE t]

\* taxes = ebt * -0.3; every taxes[i] > 0 is set to 0
taxes_row(ebt) ==
    [k \in DOMAIN ebt |->
        LET t == RMul(ebt[k], Rat(-3, 10)) IN IF t[1] > 0 THEN R(0) ELSE t]

eat_plus(ebt, taxes) == [k \in DOMAIN ebt |-> RAdd(ebt[k], taxes[k])]

\* eat = ebt - taxes
eat_row(ebt, taxes) == [k \in DOMAIN ebt |-> RSub(ebt[k], taxes[k])]

cash_flow_no_principal(eat, depreciation_r, loan_prin) ==
    [k \in DOMAIN eat |-> RSub(eat[k], depreciation_r[k])]

\* cash_flow = eat - depreciation + loan_prin
cash_flow_row(eat, depreciation_r, loan_prin) ==
    [k \in DOMAIN eat |-> RAdd(RSub(eat[k], depreciation_r[k]), loan_prin[k])]

\* np.cumsum
RECURSIVE cumsum_at(_, _)
cumsum_at(row, k) == IF k = 0 THEN R(0) ELSE RAdd(cumsum_at(row, k - 1), row[k])

cumsum(row) == [k \in DOMAIN row |-> cumsum_at(row, k)]

ledger(capex, interest, loan_years, dep_rate, sales, water, salaries) ==
    LET schedule     == loan_value(RMul(Rat(6, 10), R(capex)), interest, loan_years)
        dep_array    == depreciation_value(dep_rate, capex, 0)
        investment   == investment_row(capex)
        depreciation_r == Padded(dep_array)
        loan_prin    == Padded(schedule.principal)
        loan_int     == Padded(schedule.interest)
        sales_array  == escalated_row(R(sales), Rat(103, 100))
        water_array  == escalated_row(R(-water), Rat(103, 100))
        salaries_array == escalated_row(R(-salaries), Rat(102, 100))
        ebt          == ebt_row(<<investment, depreciation_r, loan_int, sales_array,
                                  water_array, salaries_array>>)
        taxes        == taxes_row(ebt)
        eat          == eat_row(ebt, taxes)
        cash_flow    == cash_flow_row(eat, depreciation_r, loan_prin)
    IN  [ Investment |-> investment, Sales |-> sales_array,
          Depreciation |-> depreciation_r, Loan_principal |-> loan_prin,
          Loan_interest |-> loan_int, Salaries |-> salaries_array,
          Water |-> water_array, EBT |-> ebt, Taxes |-> taxes, EAT |-> eat,
          Cash_Flow |-> cash_flow, Cumulative_Cash_Flow |-> cumsum(cash_flow) ]

\* np.vstack raises ValueError when a padded row is longer than years
rows_fit(loan_years, dep_rate) ==
    /\ loan_years <= Horizon - 1
    /\ Len(depreciation_loop(dep_rate, R(1), <<>>)) <= Horizon - 1

execute(capex, interest, loan_years, dep_rate, sales, water, salaries) ==
    /\ pc = "idle"
    /\ pc' = "done"
    /\ call' = [fn |-> "execute", capex |-> capex, interest |-> interest,
                loan_years |-> loan_years, dep_rate |-> dep_rate, sales |-> sales,
                water |-> water, salaries |-> salaries]
    /\ IF rows_fit(loan_years, dep_rate)
       THEN /\ df' = ledger(capex, interest, loan_years, dep_rate, sales, water, salaries)
            /\ ret' = ReturnedNone
       ELSE /\ df' = <<>>
            /\ ret' = Raised("ValueError")
    /\ UNCHANGED <<out, prev, annual_depreciation>>

---------------------------------------------------------------------------

Init ==
    /\ pc = "idle"
    /\ call = NoCall
    /\ ret = NoRet
    /\ out = <<>>
    /\ prev = R(1)
    /\ annual_depreciation = <<>>
    /\ df = <<>>

\* the caller takes the outcome; the object is ready for the next call
Finish ==
    /\ pc = "done"
    /\ pc' = "idle"
    /\ call' = NoCall
    /\ ret' = NoRet
    /\ out' = <<>>
    /\ prev' = R(1)
    /\ annual_depreciation' = <<>>
    /\ df' = <<>>

Next ==
    \/ \E Q \in BoilerQ, p \in BoilerP, fm \in MaterialFactors, i \in InstalledValues :
           boiler(Q, p, fm, i)
    \/ \E Q \in PumpQ, fm \in MaterialFactors, i \in InstalledValues : pump(Q, fm, i)
    \/ \E kW \in TurbineKW, fm \in MaterialFactors, i \in InstalledValues :
           steam_turbine(kW, fm, i)
    \/ \E q \in LoanQuantities, r \in InterestRates, y \in LoanYears : loan(q, r, y)
    \/ \E d \in DepRates, b \in DepBases : depreciation(d, b[1], b[2])
    \/ dep_test
    \/ dep_body
    \/ dep_return
    \/ \E cf \in CashFlows : payback(cf)
    \/ \E c \in ExecCapex, r \in ExecInterest, y \in ExecLoanYears, d \in ExecDepRates,
          s \in ExecSales, w \in ExecWater, l \in ExecSalaries :
           execute(c, r, y, d, s, w, l)
    \/ Finish

Spec == Init /\ [][Next]_vars

\* a call, once made, runs on: the interpreter takes every enabled step
LiveSpec == Spec /\ WF_vars(Next)

---------------------------------------------------------------------------
(* The properties.                                                         *)

Done(f) == pc = "done" /\ call.fn = f

ReturnedFrom(f) == Done(f) /\ ret.outcome = "returned"

Years == 1 .. Horizon

Pos(a) == a[1] > 0

Neg(a) == a[1] < 0

\* C1: in the ledger execute builds, the Taxes row is <= 0 in every year,
\* whatever the sign of that year's EBT.
C1_TaxesNeverPositive ==
    ReturnedFrom("execute") => \A k \in Years : ~Pos(df.Taxes[k])

\* a ledger with a year of profit that is taxed and a year of loss that is not
C1_Witness ==
    /\ ReturnedFrom("execute")
    /\ \E k \in Years : Pos(df.EBT[k]) /\ Neg(df.Taxes[k])
    /\ \E k \in Years : Neg(df.EBT[k]) /\ df.Taxes[k] = R(0)

\* C2 (as stated): every year's Taxes is -0.3 * EBT, except that it is zero
\* whenever that year's EBT is positive.
C2_ClippedWhenEbtPositive ==
    ReturnedFrom("execute") =>
        \A k \in Years :
            df.Taxes[k] = IF Pos(df.EBT[k]) THEN R(0)
                          ELSE RMul(Rat(-3, 10), df.EBT[k])

\* C2 (amended): every year's Taxes is -0.3 * EBT, except that it is zero
\* whenever that year's EBT is negative.
C2_ClippedWhenEbtNegative ==
    ReturnedFrom("execute") =>
        \A k \in Years :
            df.Taxes[k] = IF Neg(df.EBT[k]) THEN R(0)
                          ELSE RMul(Rat(-3, 10), df.EBT[k])

\* a ledger with a loss year whose tax is zero and a profit year whose tax
\* is -0.3 * EBT, which is not zero
C2_Witness ==
    /\ ReturnedFrom("execute")
    /\ \E k \in Years : /\ Neg(df.EBT[k])
                        /\ df.Taxes[k] = R(0)
    /\ \E k \in Years : /\ Pos(df.EBT[k])
                        /\ df.Taxes[k] = RMul(Rat(-3, 10), df.EBT[k])
                        /\ df.Taxes[k] # R(0)

RECURSIVE AbsSumBefore(_, _)
AbsSumBefore(s, i) ==
    IF i <= 1 THEN R(0) ELSE RAdd(AbsSumBefore(s, i - 1), RAbs(s[i - 1]))

\* C3: every depreciation call that returns gives charges that sum to
\* -(capex - residual), no entry larger in magnitude than the base still
\* undepreciated before it; depreciation(0.07, 100000) is 14 entries of
\* -7000 and a final entry of -2000.
C3_DepreciationSum ==
    ReturnedFrom("depreciation") =>
        LET base == call.capex - call.residual_value
            v    == ret.series
        IN  /\ RSum(v) = R(-base)
            /\ \A i \in 1 .. Len(v) :
                   RLe(RAbs(v[i]), RSub(R(Abs(base)), AbsSumBefore(v, i)))
            /\ (call.annual_percent = Rat(7, 100) /\ call.capex = 100000
                    /\ call.residual_value = 0)
               => v = [i \in 1 .. 15 |-> IF i <= 14 THEN R(-7000) ELSE R(-2000)]

\* depreciation(0.07, 100000) has returned its 15 entries
C3_Witness ==
    /\ ReturnedFrom("depreciation")
    /\ call.annual_percent = Rat(7, 100)
    /\ call.capex = 100000
    /\ Len(ret.series) = 15
    /\ ret.series[15] = R(-2000)

\* C4: for every rate in [0, 1], the endpoints included, the depreciation
\* loop eventually stops and the call returns.
C4_DepreciationTerminates == (pc = "dep_test") ~> Done("depreciation")

\* C5: for a cash-flow sequence with a non-negative entry, payback returns
\* the 1-based position of the first non-negative entry, whatever follows
\* it; payback([-100, -20, 30, 40]) = 3.
C5_PaybackFirstNonNegative ==
    ReturnedFrom("payback") =>
        LET cf == call.cash_flow
        IN  /\ \A i \in 1 .. Len(cf) :
                   (cf[i] >= 0 /\ \A j \in 1 .. i - 1 : cf[j] < 0) => ret.years = i
            /\ cf = <<-100, -20, 30, 40>> => ret.years = 3

\* a sequence whose first non-negative entry, at position 3, is followed by
\* a negative one
C5_Witness ==
    /\ ReturnedFrom("payback")
    /\ call.cash_flow = <<-1, -1, 0, -1>>
    /\ ret.years = 3

IsEquipment(f) == f \in {"boiler", "pump", "steam_turbine"}

\* C6: an invalid parameter domain raises the precondition violation before
\* any computation or warning, and nothing is returned: loan with a negative
\* quantity, a rate outside [0, 1] or a term <= 1; depreciation with a rate
\* outside [0, 1]; boiler, pump and steam_turbine with a non-boolean flag.
C6_InvalidRejected ==
    /\ (call.fn = "loan"
          /\ (\/ Neg(call.quantity)
              \/ Neg(call.interest)
              \/ RLt(R(1), call.interest)
              \/ call.years <= 1))
       => pc = "done" /\ ret = Raised("AssertionError") /\ out = <<>>
    /\ (call.fn = "depreciation"
          /\ (Neg(call.annual_percent) \/ RLt(R(1), call.annual_percent)))
       => /\ pc = "done"
          /\ ret = Raised("AssertionError")
          /\ annual_depreciation = <<>>
          /\ out = <<>>
    /\ (IsEquipment(call.fn) /\ call.installed.type # "bool")
       => pc = "done" /\ ret = Raised("AssertionError") /\ out = <<>>

\* boiler called with a non-boolean flag and a size outside the method's
\* range: the assertion fails and the warning is not printed
C6_Witness ==
    /\ Done("boiler")
    /\ call.installed.type = "int"
    /\ call.installed.truth
    /\ call.Q = 4999
    /\ ret = Raised("AssertionError")
    /\ out = <<>>

\* C7: the bare boiler cost follows the decision table: Q < 20000 linear;
\* 20000 <= Q < 200000 linear when 15 <= p < 40 and power-law when p < 15 or
\* p >= 40; Q >= 200000 power-law; boiler(10000, 70) has bare cost 193000.
C7_BoilerDecisionTable ==
    (ReturnedFrom("boiler") /\ ~call.installed.truth) =>
        LET Q == call.Q
            p == call.p
        IN  /\ Q < 20000 => ret.cost = LinearCost(Q)
            /\ (20000 <= Q /\ Q < 200000 /\ 15 <= p /\ p < 40)
                   => ret.cost = LinearCost(Q)
            /\ (20000 <= Q /\ Q < 200000 /\ (p < 15 \/ p >= 40))
                   => ret.cost = PowerCost(Q)
            /\ Q >= 200000 => ret.cost = PowerCost(Q)
            /\ (Q = 10000 /\ p = 70) => ret.cost = 193000

\* the bare cost at the boundary Q = 20000, p = 14: the power-law branch
C7_Witness ==
    /\ ReturnedFrom("boiler")
    /\ ~call.installed.truth
    /\ call.Q = 20000
    /\ call.p = 14
    /\ ret.cost = 143430

\* C8 (as stated): for valid loan inputs the principal series has T entries
\* and its sum equals the original principal.
C8_PrincipalSumsToPrincipal ==
    ReturnedFrom("loan") =>
        /\ Len(ret.schedule.principal) = call.years
        /\ RSum(ret.schedule.principal) = call.quantity

\* C8 (amended): for valid loan inputs the principal series has T entries
\* and its sum equals minus the original principal (the payments are
\* outflows; the magnitudes sum to the principal).
C8_PrincipalSumsToMinusPrincipal ==
    ReturnedFrom("loan") =>
        /\ Len(ret.schedule.principal) = call.years
        /\ \A k \in 1 .. call.years : Neg(ret.schedule.principal[k])
        /\ RSum(ret.schedule.principal) = RNeg(call.quantity)

\* a three-year loan of 12 at 50 %
C8_Witness ==
    /\ ReturnedFrom("loan")
    /\ call.quantity = R(12)
    /\ call.interest = Rat(1, 2)
    /\ call.years = 3
    /\ Len(ret.schedule.principal) = 3

\* C9: year 0 carries only the investment draw: the operating, financing
\* and tax rows are zero in year 0, Investment is zero after year 0, the
\* year-0 Cash Flow and Cumulative Cash Flow equal -0.4 * capex; in every
\* year Cash Flow = EAT - Depreciation + Loan principal and Cumulative Cash
\* Flow is the running sum of Cash Flow.
C9_YearZeroAndCashFlow ==
    ReturnedFrom("execute") =>
        LET draw == RMul(Rat(-4, 10), R(call.capex))
        IN  /\ \A row \in {df.Sales, df.Depreciation, df.Loan_principal,
                           df.Loan_interest, df.Salaries, df.Water, df.Taxes} :
                   row[1] = R(0)
            /\ df.Investment[1] = draw
            /\ \A k \in 2 .. Horizon : df.Investment[k] = R(0)
            /\ df.Cash_Flow[1] = draw
            /\ df.Cumulative_Cash_Flow[1] = draw
            /\ \A k \in Years :
                   /\ df.Cash_Flow[k] =
                          RAdd(RSub(df.EAT[k], df.Depreciation[k]), df.Loan_principal[k])
                   /\ df.Cumulative_Cash_Flow[k] =
                          RSum([j \in 1 .. k |-> df.Cash_Flow[j]])

\* a ledger whose year 1 repays principal and charges depreciation
C9_Witness ==
    /\ ReturnedFrom("execute")
    /\ Neg(df.Loan_principal[2])
    /\ Neg(df.Depreciation[2])
    /\ Neg(df.Cash_Flow[1])
    /\ df.Cumulative_Cash_Flow[2] # df.Cash_Flow[2]

\* C10: in every year EAT >= EBT: EAT = 1.3 * EBT when EBT is positive and
\* EAT = EBT when EBT is zero or negative.
C10_EatAtLeastEbt ==
    ReturnedFrom("execute") =>
        \A k \in Years :
            /\ RLe(df.EBT[k], df.EAT[k])
            /\ df.EAT[k] = IF Pos(df.EBT[k]) THEN RMul(Rat(13, 10), df.EBT[k])
                           ELSE df.EBT[k]

\* a ledger with a profit year, where EAT = 1.3 * EBT > EBT, and a loss year
C10_Witness ==
    /\ ReturnedFrom("execute")
    /\ \E k \in Years : Pos(df.EBT[k]) /\ RLt(df.EBT[k], df.EAT[k])
    /\ \E k \in Years : Neg(df.EBT[k]) /\ df.EAT[k] = df.EBT[k]

====
